---- MODULE Spec2Model ----
\* Model of src/reporting.js (matrix-content-scanner): the result cache, the
\* promise de-duplication of generateReport, the temporary-directory wrapper
\* of scannedDownload and the fetch -> decrypt -> scan pipeline.
\*
\* One action is one run of the JavaScript event loop up to the next
\* suspension on an external event (mkdtemp, the HTTP fetch, the scanner,
\* rimraf).  Promise reactions that follow a settlement (the .finally callback
\* of deduplicatePromises, the resumption of every awaiting caller) run in the
\* microtask drain of the same run and are therefore part of the same action.
EXTENDS Integers, Sequences, FiniteSets, TLC

\* ---------------------------------------------------------------- bounds
MaxCalls == 2

Calls == 1..MaxCalls
NoCall == 0

\* ------------------------------------------------------------ input values
Undefined == "undefined"

BaseUrl == "https://hs"
Script == "scan.sh"
RootDir == 0
NoDir == -1

\* eventContentFile: absent, or an encrypted-file descriptor.  url is the
\* result of url.split('/'); key is the decryption key ("" when the
\* descriptor carries none).
NoFile == [present |-> FALSE, url |-> <<>>, key |-> ""]
EncFile == [present |-> TRUE, url |-> <<"mxc:", "", "d", "m1">>, key |-> "k1"]
PlainFile == [present |-> TRUE, url |-> <<"mxc:", "", "d", "m1">>, key |-> ""]

\* The (domain, mediaId, eventContentFile) triples of the requests: one url,
\* requested as plaintext and with each descriptor, so that the requests
\* have different keys; the second one names another mediaId than its
\* descriptor does.  generateReport and scannedDownload are called with the
\* first two, getReport with all three.
PlainRequest == [domain |-> "d", mediaId |-> "m1", eventContentFile |-> NoFile]
EncRequest == [domain |-> "d", mediaId |-> "m2", eventContentFile |-> EncFile]
OtherRequest == [domain |-> "d", mediaId |-> "m1", eventContentFile |-> PlainFile]
ScanRequests == {PlainRequest, EncRequest}
Requests == ScanRequests \cup {OtherRequest}

GoodOpts == [baseUrl |-> BaseUrl, tempDirectory |-> RootDir, script |-> Script]
NoScriptOpts == [baseUrl |-> BaseUrl, tempDirectory |-> RootDir, script |-> Undefined]
OptsSet == {GoodOpts, NoScriptOpts}

\* ------------------------------------------------------- values and errors
NoPath == [dir |-> NoDir, name |-> ""]
NoHeaders == 0

\* Every value a promise settles with has the same shape.
\*   type "none"        nothing yet
\*   type "result"      the object returned by executeCommand, with filePath
\*                      and headers once _generateReport attached them
\*   type "undefined"   the return value of the scannedDownload body
\*   type "ClientError" new ClientError(code, info)
\*   type "Error"       new Error(info)
\*   type "FetchError"  the error emitted by request; code is its statusCode
\*   type "FsError"     a rejection of mkdtemp or rimraf
Value(t, c, cl, i, e) ==
    [type |-> t, code |-> c, clean |-> cl, info |-> i, exitCode |-> e,
     filePath |-> NoPath, headers |-> NoHeaders]

NoOut == Value("none", 0, FALSE, "", 0)
UndefinedValue == Value("undefined", 0, FALSE, "", 0)
ClientError(code, msg) == Value("ClientError", code, FALSE, msg, 0)
ConfigError == Value("Error", 0, FALSE, "Expected baseUrl, tempDirectory and script in opts", 0)
FetchErr(statusCode) == Value("FetchError", statusCode, FALSE, "request failed", 0)
MkdtempError == Value("FsError", 0, FALSE, "mkdtemp", 0)
RimrafError == Value("FsError", 0, FALSE, "rimraf", 0)

\* What executeCommand resolves with.
Verdicts ==
    {Value("result", 0, TRUE, "File is clean", 0),
     Value("result", 0, FALSE, "File not clean", 1)}

\* statusCode of the error emitted by the transport; 0 is "no statusCode".
FetchStatusCodes == {0, 404}

IsError(v) == v.type \in {"ClientError", "Error", "FetchError", "FsError"}

\* ------------------------------------------------------------ pure helpers
SliceLast2(s) ==
    IF Len(s) <= 2 THEN s ELSE SubSeq(s, Len(s) - 1, Len(s))

\* `${baseUrl}/_matrix/media/v1/download/${domain}/${mediaId}`
generateHttpUrl(baseUrl, domain, mediaId) ==
    <<baseUrl, "_matrix", "media", "v1", "download", domain, mediaId>>

\* (fault: the descriptor is left out of the digest)
generateResultHash_UrlOnly(httpUrl, eventContentFile) ==
    [httpUrl |-> httpUrl, eventContentFile |-> NoFile]

\* base64sha256(JSON.stringify({ httpUrl, eventContentFile })): the digest is
\* represented by the string it is computed from.
generateResultHash(httpUrl, eventContentFile) ==
    [httpUrl |-> httpUrl, eventContentFile |-> eventContentFile]

\* [domain, mediaId] after the optional override from the descriptor's url.
EffectiveMedia(domain, mediaId, eventContentFile) ==
    IF eventContentFile.present
    THEN SliceLast2(eventContentFile.url)
    ELSE <<domain, mediaId>>

getInputHash(domain, mediaId, eventContentFile, o) ==
    LET dm == EffectiveMedia(domain, mediaId, eventContentFile)
        httpUrl == generateHttpUrl(o.baseUrl, dm[1], dm[2])
    IN  generateResultHash(httpUrl, eventContentFile)

Keys ==
    {getInputHash(r.domain, r.mediaId, r.eventContentFile, o) : r \in Requests, o \in OptsSet}

\* ------------------------------------------------------------------ state
VARIABLES
    pc,          \* position of each call: idle, mkdtemp, await, rimraf, done
    args,        \* arguments each call was made with
    awaiting,    \* the promise (named by the call that created it) a call awaits in generateReport
    report,      \* what `await generateReport(...)` delivered to the call
    result,      \* what the call settled with for its own caller
    sent,        \* argument of res.sendFile, per scannedDownload call
    resHeaders,  \* argument of res.set, per scannedDownload call
    exec,        \* the executions of _generateReport, named by the call that started them
    ongoing,     \* the registry of deduplicatePromises: key -> promise
    resultCache, \* key -> cached result object
    dirs,        \* the workspaces (mkdtemp directories) that exist
    files,       \* the files that exist
    lastGet,     \* the getReport call made in the last step, if any, and its return value
    opts,        \* the options every call is made with
    globalResult \* the implicit global `result` that _generateReport assigns

vars == <<pc, args, awaiting, report, result, sent, resHeaders, exec, ongoing,
          resultCache, dirs, files, lastGet, opts, globalResult>>

NoArgs == [kind |-> "none", domain |-> "", mediaId |-> "", eventContentFile |-> NoFile,
           opts |-> GoodOpts]

NoExec ==
    [state |-> "none", key |-> getInputHash("", "", NoFile, GoodOpts),
     httpUrl |-> <<>>, eventContentFile |-> NoFile, filePath |-> NoPath,
     tempDir |-> NoDir, script |-> Undefined, headers |-> NoHeaders,
     fetches |-> 0, decrypts |-> 0, scans |-> 0,
     fetchError |-> NoOut, decryptThrew |-> FALSE, out |-> NoOut]

NoGet == [called |-> FALSE, domain |-> "", mediaId |-> "", eventContentFile |-> NoFile,
          ret |-> [scanned |-> FALSE, clean |-> FALSE, info |-> ""]]

AllKeys == Keys \cup {NoExec.key}

Init ==
    /\ pc = [c \in Calls |-> "idle"]
    /\ args = [c \in Calls |-> NoArgs]
    /\ awaiting = [c \in Calls |-> NoCall]
    /\ report = [c \in Calls |-> NoOut]
    /\ result = [c \in Calls |-> NoOut]
    /\ sent = [c \in Calls |-> NoPath]
    /\ resHeaders = [c \in Calls |-> NoHeaders]
    /\ exec = [c \in Calls |-> NoExec]
    /\ ongoing = [k \in AllKeys |-> NoCall]
    /\ resultCache = [k \in AllKeys |-> NoOut]
    /\ dirs = {}
    /\ files = {}
    /\ lastGet = NoGet
    /\ opts \in OptsSet
    /\ globalResult = NoOut

InFlight(p) == exec[p].state \in {"thrown", "fetching", "scanning"}
Outstanding(c) == pc[c] \in {"mkdtemp", "await", "rimraf"}

\* ------------------------------------------------- de-duplication wrapper
\* (fault: the registry is not consulted)
ShouldStart_Always(ong, k) == TRUE

\* if (!ongoing[k])
ShouldStart(ong, k) == ong[k] = NoCall

\* (fault: the callback does not delete the key)
Deregister_Never(ong, k) == ong

\* .finally((res) => {delete ongoing[k]; return res;}): the registry after
\* the callback ran for key k
Deregister(ong, k) == [ong EXCEPT ![k] = NoCall]

\* (fault: .then(cb, cb) in place of .finally(cb): the callback receives no
\* argument and the callers get its return value)
FinallyValue_Then(out) == UndefinedValue

\* .finally(...) hands the settlement of asyncFn(...) on unchanged: the value
\* the awaiting callers see for a settlement out
FinallyValue(out) == out

\* ------------------------------------------------------------ the pipeline
\* _generateReport up to its first suspension: the option check, the url,
\* the file path and the start of the fetch.
StartGenerateReport(domain, mediaId, eventContentFile, o) ==
    IF o.baseUrl = Undefined \/ o.tempDirectory = NoDir \/ o.script = Undefined
    THEN [NoExec EXCEPT !.state = "thrown", !.out = ConfigError]
    ELSE LET dm == EffectiveMedia(domain, mediaId, eventContentFile)
         IN  [NoExec EXCEPT
                !.state = "fetching",
                !.httpUrl = generateHttpUrl(o.baseUrl, dm[1], dm[2]),
                !.eventContentFile = eventContentFile,
                !.tempDir = o.tempDirectory,
                !.script = o.script,
                !.filePath = [dir |-> o.tempDirectory, name |-> "downloadedFile"],
                !.fetches = 1]

\* (fault: the test of err.statusCode is missing)
FetchFailure_Always502(err) == ClientError(502, "Failed to get requested URL")

\* catch (err) of the fetch: what _generateReport throws for the error err
FetchFailure(err) ==
    IF err.code = 0 THEN err ELSE ClientError(502, "Failed to get requested URL")

\* (fault: the outcome of a failed decryption is stored in the cache)
generateResult_CachesFailure(cache, httpUrl, eventContentFile, filePath, tempDir, decryptOk) ==
    LET resultSecret == generateResultHash(httpUrl, eventContentFile)
        decrypts == eventContentFile.present /\ eventContentFile.key # ""
        decryptedFilePath == [dir |-> tempDir, name |-> "unsafeDownloadedDecryptedFile"]
        failure == ClientError(400, "Failed to decrypt file")
    IN  IF cache[resultSecret] # NoOut
        THEN [step |-> "hit", value |-> cache[resultSecret], decrypts |-> 0,
              written |-> {}, cache |-> cache]
        ELSE IF decrypts /\ ~decryptOk
        THEN [step |-> "throw", value |-> failure,
              decrypts |-> 1, written |-> {},
              cache |-> [cache EXCEPT ![resultSecret] = failure]]
        ELSE [step |-> "scan", value |-> NoOut,
              decrypts |-> IF decrypts THEN 1 ELSE 0,
              written |-> IF decrypts THEN {decryptedFilePath} ELSE {},
              cache |-> cache]

\* generateResult up to its first suspension.  decryptOk is whether
\* decryptFile returns (TRUE) or throws (FALSE).
\*   step "hit"     the cached object is returned
\*   step "throw"   ClientError(400)
\*   step "scan"    executeCommand was started on scanPath
generateResult(cache, httpUrl, eventContentFile, filePath, tempDir, decryptOk) ==
    LET resultSecret == generateResultHash(httpUrl, eventContentFile)
        decrypts == eventContentFile.present /\ eventContentFile.key # ""
        decryptedFilePath == [dir |-> tempDir, name |-> "unsafeDownloadedDecryptedFile"]
    IN  IF cache[resultSecret] # NoOut
        THEN [step |-> "hit", value |-> cache[resultSecret], decrypts |-> 0,
              written |-> {}, cache |-> cache]
        ELSE IF decrypts /\ ~decryptOk
        THEN [step |-> "throw", value |-> ClientError(400, "Failed to decrypt file"),
              decrypts |-> 1, written |-> {}, cache |-> cache]
        ELSE [step |-> "scan", value |-> NoOut,
              decrypts |-> IF decrypts THEN 1 ELSE 0,
              written |-> IF decrypts THEN {decryptedFilePath} ELSE {},
              cache |-> cache]

\* (fault: the result is not stored)
StoreResult_Skipped(cache, resultSecret, r) == cache

\* resultCache[resultSecret] = result
StoreResult(cache, resultSecret, r) == [cache EXCEPT ![resultSecret] = r]

\* (fault: the variable is read as another invocation left it)
ReadResult_Stale(assigned, shared) == IF shared = NoOut THEN assigned ELSE shared

\* result = await generateResult(...) followed by the uses of result: the
\* value read from the shared variable, which held `shared` before the
\* assignment.
ReadResult(assigned, shared) == assigned

\* (fault: an object that already carries a path keeps it)
Attach_Stale(r, filePath, headers) ==
    IF r.filePath = NoPath THEN [r EXCEPT !.filePath = filePath, !.headers = headers] ELSE r

\* result.filePath = filePath; result.headers = downloadHeaders
Attach(r, filePath, headers) == [r EXCEPT !.filePath = filePath, !.headers = headers]

\* ------------------------------------------------------- scannedDownload
\* The body of scannedDownload after `await generateReport(...)` delivered
\* rep: what the body settles with.
DownloadBody(rep) ==
    IF IsError(rep) THEN rep
    ELSE IF ~rep.clean THEN ClientError(403, rep.info)
    ELSE UndefinedValue

\* (fault: no finally, the removal only follows a return)
AfterOp_OnlyOnReturn(out) == IF IsError(out) THEN "done" ELSE "rimraf"

\* try { result = await asyncFn(...args) } finally { await rimraf }:
\* where the wrapper continues once the wrapped function settled with out
AfterOp(out) == "rimraf"

\* ---------------------------------------------------------------- actions
\* A call enters generateReport (the function returned by
\* deduplicatePromises) with the options o.
Enter(c, a, o) ==
    LET k == getInputHash(a.domain, a.mediaId, a.eventContentFile, o)
        start == ShouldStart(ongoing, k)
        e == StartGenerateReport(a.domain, a.mediaId, a.eventContentFile, o)
        ong == IF start THEN [ongoing EXCEPT ![k] = c] ELSE ongoing
    IN  /\ exec' = IF start THEN [exec EXCEPT ![c] = [e EXCEPT !.key = k]] ELSE exec
        /\ ongoing' = ong
        /\ awaiting' = [awaiting EXCEPT ![c] = ong[k]]
        /\ files' = IF start /\ e.state = "fetching" THEN files \cup {e.filePath} ELSE files

\* The next unused call slot.
NextCall(c) == pc[c] = "idle" /\ \A d \in Calls : d < c => pc[d] # "idle"

CallGenerateReport(c, r) ==
    LET a == [kind |-> "generateReport", domain |-> r.domain, mediaId |-> r.mediaId,
              eventContentFile |-> r.eventContentFile, opts |-> opts]
    IN  /\ NextCall(c)
        /\ args' = [args EXCEPT ![c] = a]
        /\ pc' = [pc EXCEPT ![c] = "await"]
        /\ Enter(c, a, a.opts)
        /\ UNCHANGED <<report, result, sent, resHeaders, resultCache, dirs>>
    /\ lastGet' = NoGet
    /\ UNCHANGED <<opts, globalResult>>

\* scannedDownload: the wrapper of withTempDir starts mkdtemp.
CallScannedDownload(c, r) ==
    LET a == [kind |-> "scannedDownload", domain |-> r.domain, mediaId |-> r.mediaId,
              eventContentFile |-> r.eventContentFile, opts |-> opts]
    IN  /\ NextCall(c)
        /\ args' = [args EXCEPT ![c] = a]
        /\ pc' = [pc EXCEPT ![c] = "mkdtemp"]
        /\ UNCHANGED <<awaiting, report, result, sent, resHeaders, exec, ongoing,
                       resultCache, dirs, files>>
    /\ lastGet' = NoGet
    /\ UNCHANGED <<opts, globalResult>>

\* mkdtemp resolved: the workspace of call c exists and the wrapped function
\* runs with tempDirectory replaced, up to `await ongoing[k]`.
MkdtempDone(c) ==
    /\ pc[c] = "mkdtemp"
    /\ dirs' = dirs \cup {c}
    /\ pc' = [pc EXCEPT ![c] = "await"]
    /\ Enter(c, args[c], [args[c].opts EXCEPT !.tempDirectory = c])
    /\ UNCHANGED <<args, report, result, sent, resHeaders, resultCache>>
    /\ lastGet' = NoGet
    /\ UNCHANGED <<opts, globalResult>>

\* mkdtemp rejected: the wrapper rejects, nothing was created.
MkdtempFail(c) ==
    /\ pc[c] = "mkdtemp"
    /\ pc' = [pc EXCEPT ![c] = "done"]
    /\ result' = [result EXCEPT ![c] = MkdtempError]
    /\ UNCHANGED <<args, awaiting, report, sent, resHeaders, exec, ongoing, resultCache,
                   dirs, files>>
    /\ lastGet' = NoGet
    /\ UNCHANGED <<opts, globalResult>>

\* The promise of execution p settles with out: the .finally callback
\* deregisters the key and every call awaiting the promise resumes.  e is the
\* execution record at that moment.
Settle(p, e, out) ==
    LET v == FinallyValue(out)
        waiters == {c \in Calls : pc[c] = "await" /\ awaiting[c] = p}
        isDownload(c) == args[c].kind = "scannedDownload"
        body == DownloadBody(v)
    IN  /\ exec' = [exec EXCEPT ![p] = [e EXCEPT !.state = "settled", !.out = out]]
        /\ ongoing' = Deregister(ongoing, exec[p].key)
        /\ report' = [c \in Calls |-> IF c \in waiters THEN v ELSE report[c]]
        /\ pc' = [c \in Calls |->
                    IF c \notin waiters THEN pc[c]
                    ELSE IF isDownload(c) THEN AfterOp(body) ELSE "done"]
        /\ result' = [c \in Calls |->
                    IF c \notin waiters THEN result[c]
                    ELSE IF ~isDownload(c) THEN v
                    ELSE IF AfterOp(body) = "done" THEN body ELSE NoOut]
        /\ sent' = [c \in Calls |->
                    IF c \in waiters /\ isDownload(c) /\ body = UndefinedValue
                    THEN v.filePath ELSE sent[c]]
        /\ resHeaders' = [c \in Calls |->
                    IF c \in waiters /\ isDownload(c) /\ body = UndefinedValue
                    THEN v.headers ELSE resHeaders[c]]

\* The rejection of an execution that threw before its first await reaches
\* the .finally callback.
ThrownSettles(p) ==
    /\ exec[p].state = "thrown"
    /\ Settle(p, exec[p], exec[p].out)
    /\ UNCHANGED <<args, awaiting, resultCache, dirs, files>>
    /\ lastGet' = NoGet
    /\ UNCHANGED <<opts, globalResult>>

\* The request emits 'error'.
FetchFail(p, statusCode) ==
    /\ exec[p].state = "fetching"
    /\ Settle(p, [exec[p] EXCEPT !.fetchError = FetchErr(statusCode)],
              FetchFailure(FetchErr(statusCode)))
    /\ UNCHANGED <<args, awaiting, resultCache, dirs, files>>
    /\ lastGet' = NoGet
    /\ UNCHANGED <<opts, globalResult>>

\* The request emits 'end': generateResult runs up to the scanner, or the
\* execution settles (cache hit, decryption failure).
FetchEnd(p, decryptOk) ==
    /\ exec[p].state = "fetching"
    /\ LET e == exec[p]
           headers == p
           resultSecret == generateResultHash(e.httpUrl, e.eventContentFile)
           g == generateResult(resultCache, e.httpUrl, e.eventContentFile,
                               e.filePath, e.tempDir, decryptOk)
           e2 == [e EXCEPT !.headers = headers, !.decrypts = g.decrypts]
           r == Attach(ReadResult(g.value, globalResult), e.filePath, headers)
       IN  CASE g.step = "hit" ->
                  /\ resultCache' = [g.cache EXCEPT
                                        ![resultSecret] = Attach(g.value, e.filePath, headers)]
                  /\ globalResult' = r
                  /\ Settle(p, e2, r)
                  /\ UNCHANGED files
             [] g.step = "throw" ->
                  /\ resultCache' = g.cache
                  /\ Settle(p, [e2 EXCEPT !.decryptThrew = TRUE], g.value)
                  /\ UNCHANGED <<files, globalResult>>
             [] g.step = "scan" ->
                  /\ resultCache' = g.cache
                  /\ exec' = [exec EXCEPT ![p] = [e2 EXCEPT !.state = "scanning", !.scans = 1]]
                  /\ files' = files \cup g.written
                  /\ UNCHANGED <<ongoing, report, pc, result, sent, resHeaders, globalResult>>
    /\ UNCHANGED <<args, awaiting, dirs>>
    /\ lastGet' = NoGet
    /\ UNCHANGED opts

\* executeCommand resolves with the verdict v.
ScanDone(p, v) ==
    /\ exec[p].state = "scanning"
    /\ LET e == exec[p]
           resultSecret == generateResultHash(e.httpUrl, e.eventContentFile)
           r == Attach(ReadResult(v, globalResult), e.filePath, e.headers)
       IN  /\ resultCache' = StoreResult(resultCache, resultSecret,
                                         Attach(v, e.filePath, e.headers))
           /\ globalResult' = r
           /\ Settle(p, e, r)
    /\ UNCHANGED <<args, awaiting, dirs, files>>
    /\ lastGet' = NoGet
    /\ UNCHANGED opts

\* rimraf calls back without error: the workspace and its files are gone and
\* the wrapper settles as the wrapped function did.
RimrafDone(c) ==
    /\ pc[c] = "rimraf"
    /\ dirs' = dirs \ {c}
    /\ files' = {f \in files : f.dir # c}
    /\ pc' = [pc EXCEPT ![c] = "done"]
    /\ result' = [result EXCEPT ![c] = DownloadBody(report[c])]
    /\ UNCHANGED <<args, awaiting, report, sent, resHeaders, exec, ongoing, resultCache>>
    /\ lastGet' = NoGet
    /\ UNCHANGED <<opts, globalResult>>

\* rimraf calls back with an error: the rejection inside finally replaces
\* the outcome of the wrapped function.
RimrafFail(c) ==
    /\ pc[c] = "rimraf"
    /\ pc' = [pc EXCEPT ![c] = "done"]
    /\ result' = [result EXCEPT ![c] = RimrafError]
    /\ UNCHANGED <<args, awaiting, report, sent, resHeaders, exec, ongoing, resultCache,
                   dirs, files>>
    /\ lastGet' = NoGet
    /\ UNCHANGED <<opts, globalResult>>

\* (fault: the test for a missing entry is absent)
getReport_NoMissCheck(cache, domain, mediaId, eventContentFile, o) ==
    LET dm == EffectiveMedia(domain, mediaId, eventContentFile)
        httpUrl == generateHttpUrl(o.baseUrl, dm[1], dm[2])
        resultSecret == generateResultHash(httpUrl, eventContentFile)
    IN  [scanned |-> TRUE, clean |-> cache[resultSecret].clean,
         info |-> cache[resultSecret].info]

\* The value getReport returns.
getReport(cache, domain, mediaId, eventContentFile, o) ==
    LET dm == EffectiveMedia(domain, mediaId, eventContentFile)
        httpUrl == generateHttpUrl(o.baseUrl, dm[1], dm[2])
        resultSecret == generateResultHash(httpUrl, eventContentFile)
    IN  IF cache[resultSecret] = NoOut
        THEN [scanned |-> FALSE, clean |-> FALSE, info |-> ""]
        ELSE [scanned |-> TRUE, clean |-> cache[resultSecret].clean,
              info |-> cache[resultSecret].info]

GetReport(r) ==
    /\ lastGet' = [called |-> TRUE, domain |-> r.domain, mediaId |-> r.mediaId,
                   eventContentFile |-> r.eventContentFile,
                   ret |-> getReport(resultCache, r.domain, r.mediaId, r.eventContentFile, opts)]
    /\ UNCHANGED <<pc, args, awaiting, report, result, sent, resHeaders, exec, ongoing,
                   resultCache, dirs, files, opts, globalResult>>

\* (fault: the cache is left as it is)
ClearReportCache_NoOp ==
    /\ resultCache' = resultCache
    /\ UNCHANGED <<pc, args, awaiting, report, result, sent, resHeaders, exec, ongoing,
                   dirs, files>>
    /\ lastGet' = NoGet
    /\ UNCHANGED <<opts, globalResult>>

ClearReportCache ==
    /\ resultCache' = [k \in AllKeys |-> NoOut]
    /\ UNCHANGED <<pc, args, awaiting, report, result, sent, resHeaders, exec, ongoing,
                   dirs, files>>
    /\ lastGet' = NoGet
    /\ UNCHANGED <<opts, globalResult>>

Next ==
    \/ \E c \in Calls, r \in ScanRequests : CallGenerateReport(c, r)
    \/ \E c \in Calls, r \in ScanRequests : CallScannedDownload(c, r)
    \/ \E c \in Calls : MkdtempDone(c)
    \/ \E c \in Calls : MkdtempFail(c)
    \/ \E p \in Calls : ThrownSettles(p)
    \/ \E p \in Calls, sc \in FetchStatusCodes : FetchFail(p, sc)
    \/ \E p \in Calls, ok \in BOOLEAN : FetchEnd(p, ok)
    \/ \E p \in Calls, v \in Verdicts : ScanDone(p, v)
    \/ \E c \in Calls : RimrafDone(c)
    \/ \E c \in Calls : RimrafFail(c)
    \/ \E r \in Requests : GetReport(r)
    \/ ClearReportCache

Spec == Init /\ [][Next]_vars

\* The external steps call c waits for: mkdtemp, the .finally callback of a
\* rejected execution, the request, executeCommand, rimraf.
Progress(c) ==
    \/ MkdtempDone(c)
    \/ MkdtempFail(c)
    \/ ThrownSettles(c)
    \/ \E sc \in FetchStatusCodes : FetchFail(c, sc)
    \/ \E ok \in BOOLEAN : FetchEnd(c, ok)
    \/ \E v \in Verdicts : ScanDone(c, v)
    \/ RimrafDone(c)
    \/ RimrafFail(c)

\* Every external step that is pending eventually calls back, and the event
\* loop eventually runs every callback that is ready.
FairSpec == Spec /\ \A c \in Calls : WF_vars(Progress(c))

\* ================================================================ claims
KeyOfCall(c) ==
    getInputHash(args[c].domain, args[c].mediaId, args[c].eventContentFile, args[c].opts)

IsDownload(c) == args[c].kind = "scannedDownload"
IsReport(c) == args[c].kind = "generateReport"

\* The step in which call c enters the function returned by deduplicatePromises.
EntersReport(c) == pc[c] # "await" /\ pc'[c] = "await"

\* The step in which the promise of execution p settles.
Settles(p) == InFlight(p) /\ exec'[p].state = "settled"

\* C1: for every key at most one execution of _generateReport is in flight,
\* whatever the interleaving of generateReport and scannedDownload calls.
C1_AtMostOneExecutionPerKey ==
    \A k \in AllKeys : Cardinality({p \in Calls : InFlight(p) /\ exec[p].key = k}) <= 1

\* An execution is in flight and another call of the same key awaits it.
C1_Witness ==
    \E p \in Calls, c \in Calls :
        /\ c # p
        /\ exec[p].state \in {"fetching", "scanning"}
        /\ pc[c] = "await"
        /\ KeyOfCall(c) = exec[p].key
        /\ awaiting[c] = p

\* C2: a call that enters generateReport while an execution of its key is in
\* flight starts no execution of its own and awaits that one, and what it is
\* given is the settlement of that execution: the same result object or the
\* same error.
C2_JoinsInFlight ==
    \A c \in Calls, p \in Calls :
        (EntersReport(c) /\ InFlight(p) /\ exec[p].key = KeyOfCall(c)')
            => (exec'[c] = exec[c] /\ exec'[c].state = "none" /\ awaiting'[c] = p)

C2_SameOutcome ==
    \A c \in Calls :
        (awaiting[c] # NoCall /\ report[c] # NoOut)
            => /\ exec[awaiting[c]].state = "settled"
               /\ report[c] = exec[awaiting[c]].out
               /\ (IsReport(c) => result[c] = exec[awaiting[c]].out)

C2_CoalescedCallsShareOutcome == [][C2_JoinsInFlight]_vars /\ []C2_SameOutcome

\* Two calls awaited one execution and both hold its verdict; and likewise
\* for an execution that failed.
C2_Witness ==
    \E p \in Calls, c \in Calls :
        /\ c # p
        /\ awaiting[c] = p /\ awaiting[p] = p
        /\ exec[c].state = "none"
        /\ exec[p].out.type = "result"
        /\ report[c] = exec[p].out /\ report[p] = exec[p].out

\* C3: two concurrent scannedDownload calls for the same (domain, mediaId)
\* with no descriptor cause one fetch between them and are given the same
\* clean/info, in whatever order they create their workspaces and reach
\* generateReport.  Stated for two calls that are outstanding in the same
\* state and of which none was given an error.
C3_ConcurrentDownloadsFetchOnce ==
    \A c1 \in Calls, c2 \in Calls :
        (/\ c1 # c2
         /\ IsDownload(c1) /\ IsDownload(c2)
         /\ ~args[c1].eventContentFile.present /\ ~args[c2].eventContentFile.present
         /\ args[c1].domain = args[c2].domain /\ args[c1].mediaId = args[c2].mediaId
         /\ Outstanding(c1) /\ Outstanding(c2)
         /\ ~IsError(report[c1]) /\ ~IsError(report[c2]))
            => /\ exec[c1].fetches + exec[c2].fetches <= 1
               /\ (report[c1].type = "result" /\ report[c2].type = "result")
                     => (report[c1].clean = report[c2].clean /\ report[c1].info = report[c2].info)

\* C4: when an execution settles, by success or by failure, its key leaves
\* the registry, and a call that enters generateReport while no execution of
\* its key is in flight starts a new one.
C4_SettleDeregisters ==
    \A p \in Calls : Settles(p) => ongoing'[exec[p].key] = NoCall

C4_NextCallStarts ==
    \A c \in Calls :
        (EntersReport(c) /\ \A p \in Calls : exec[p].key = KeyOfCall(c)' => ~InFlight(p))
            => (exec'[c].state # "none" /\ exec'[c].key = KeyOfCall(c)' /\ awaiting'[c] = c)

C4_SettlementFreesKey == [][C4_SettleDeregisters /\ C4_NextCallStarts]_vars

\* A fetch failed with a status code, and a later call of the same key
\* fetched again and got a verdict.
C4_Witness ==
    \E p \in Calls, c \in Calls :
        /\ c # p
        /\ exec[p].state = "settled" /\ exec[p].out = ClientError(502, "Failed to get requested URL")
        /\ exec[c].key = exec[p].key
        /\ exec[c].fetches = 1
        /\ exec[c].state = "settled" /\ exec[c].out.type = "result"
        /\ ongoing[exec[p].key] = NoCall

\* C5: getReport reads the cache only: for a key without entry it returns
\* {scanned: false}, and in every case nothing but its return value changes:
\* no fetch, decryption or scan starts, the cache and the registry stay as
\* they are.
C5_GetReportStep ==
    lastGet'.called =>
        /\ UNCHANGED <<pc, args, awaiting, report, result, sent, resHeaders, exec,
                       ongoing, resultCache, dirs, files, opts, globalResult>>
        /\ LET k == getInputHash(lastGet'.domain, lastGet'.mediaId,
                                 lastGet'.eventContentFile, opts)
           IN  resultCache[k] = NoOut
                  => lastGet'.ret = [scanned |-> FALSE, clean |-> FALSE, info |-> ""]

C5_GetReportIsCacheOnly == [][C5_GetReportStep]_vars

\* getReport returned {scanned: false} for a key whose pipeline is running.
C5_Witness ==
    /\ lastGet.called
    /\ ~lastGet.ret.scanned
    /\ \E p \in Calls :
         /\ exec[p].state = "scanning"
         /\ exec[p].key = getInputHash(lastGet.domain, lastGet.mediaId,
                                       lastGet.eventContentFile, opts)
         /\ resultCache[exec[p].key] = NoOut

\* C6: in the state in which a pipeline invocation delivers a verdict to a
\* call, getReport for the inputs of that call returns scanned: true with the
\* clean and info of that verdict.
C6_VerdictStep ==
    \A c \in Calls :
        (report[c] = NoOut /\ report'[c].type = "result")
            => getReport(resultCache', args[c].domain, args[c].mediaId,
                         args[c].eventContentFile, args[c].opts)
                 = [scanned |-> TRUE, clean |-> report'[c].clean, info |-> report'[c].info]

C6_VerdictVisibleToGetReport == [][C6_VerdictStep]_vars

\* A generateReport call returned a verdict and the getReport made next for
\* the same inputs returned it.
C6_Witness ==
    \E c \in Calls :
        /\ IsReport(c) /\ pc[c] = "done" /\ result[c].type = "result"
        /\ lastGet.called
        /\ lastGet.domain = args[c].domain /\ lastGet.mediaId = args[c].mediaId
        /\ lastGet.eventContentFile = args[c].eventContentFile
        /\ lastGet.ret = [scanned |-> TRUE, clean |-> result[c].clean, info |-> result[c].info]

\* C7: a pipeline invocation that fails (fetch failure with or without status
\* code, decryption failure) writes nothing to the cache, neither when it
\* starts nor when it fails, so getReport for a key that had no entry still
\* returns {scanned: false}.
C7_FailureStep ==
    \A p \in Calls :
        \/ ~((Settles(p) /\ IsError(exec'[p].out)) \/ (exec[p].state = "none" /\ InFlight(p)'))
        \/ /\ resultCache' = resultCache
           /\ LET a == IF exec[p].state = "none" THEN args'[p] ELSE args[p]
              IN  resultCache[KeyOfCall(p)'] = NoOut
                    => ~getReport(resultCache', a.domain, a.mediaId,
                                  a.eventContentFile, a.opts).scanned

C7_FailuresAreNotCached == [][C7_FailureStep]_vars

\* A decryption failed and the getReport made next for the same inputs
\* returned {scanned: false}.
C7_Witness ==
    \E p \in Calls :
        /\ exec[p].state = "settled"
        /\ exec[p].decryptThrew
        /\ exec[p].out = ClientError(400, "Failed to decrypt file")
        /\ lastGet.called
        /\ lastGet.eventContentFile = args[p].eventContentFile
        /\ ~lastGet.ret.scanned

\* C8: a failing step reaches the caller of generateReport as its error and
\* never as a verdict: a fetch error with a status code as ClientError(502),
\* a fetch error without one as that same error, a decryption failure as
\* ClientError(400).
ExpectedFailure(e) ==
    IF e.fetchError.type = "FetchError"
    THEN IF e.fetchError.code = 0 THEN e.fetchError
         ELSE ClientError(502, "Failed to get requested URL")
    ELSE IF e.decryptThrew THEN ClientError(400, "Failed to decrypt file")
    ELSE NoOut

C8_StepFailuresSurfaceAsErrors ==
    \A p \in Calls :
        (exec[p].state = "settled" /\ ExpectedFailure(exec[p]) # NoOut)
            => /\ exec[p].out = ExpectedFailure(exec[p])
               /\ \A c \in Calls :
                     (IsReport(c) /\ awaiting[c] = p /\ pc[c] = "done")
                        => (result[c] = ExpectedFailure(exec[p]) /\ result[c].type # "result")

\* One generateReport call failed with the transport's own error, another
\* with the bad-request error of a failed decryption.
C8_Witness ==
    \E c1 \in Calls, c2 \in Calls :
        /\ IsReport(c1) /\ pc[c1] = "done" /\ result[c1] = FetchErr(0)
        /\ IsReport(c2) /\ pc[c2] = "done"
        /\ result[c2] = ClientError(400, "Failed to decrypt file")

\* C9: when the verdict is unclean, scannedDownload fails with
\* ClientError(403) and never calls res.set or res.sendFile, and the unclean
\* verdict is in the cache.
C9_UncleanDownloadIsForbidden ==
    \A c \in Calls :
        (IsDownload(c) /\ report[c].type = "result" /\ ~report[c].clean)
            => /\ sent[c] = NoPath /\ resHeaders[c] = NoHeaders
               /\ pc[c] = "done" => result[c] = ClientError(403, report[c].info)

WrittenBy(p) ==
    IF exec[p].fetches = 0 THEN {}
    ELSE {exec[p].filePath, [dir |-> exec[p].tempDir, name |-> "unsafeDownloadedDecryptedFile"]}

\* C11: once a pipeline invocation has settled and the call that started it
\* (a generateReport or a scannedDownload call) has finished, none of the
\* files the invocation wrote exists, whether it ended in a verdict, a fetch
\* failure or a decryption failure.
C11_NoFilesLeftBehind ==
    \A p \in Calls :
        (exec[p].state = "settled" /\ pc[p] = "done") => WrittenBy(p) \cap files = {}

\* C12: when the removal of the workspace fails, the caller of the wrapped
\* function still gets that function's own outcome: undefined if it
\* returned, its error if it threw.
C12_RemovalFailureDoesNotMask ==
    \A c \in Calls :
        (IsDownload(c) /\ pc[c] = "done" /\ report[c] # NoOut)
            => result[c] = DownloadBody(report[c])

\* The download URL of request r under the configured options.
UrlOf(r) ==
    LET dm == EffectiveMedia(r.domain, r.mediaId, r.eventContentFile)
    IN  generateHttpUrl(opts.baseUrl, dm[1], dm[2])

\* Execution p ran the scanner to completion for exactly the input of r.
ScannedAs(p, r) ==
    /\ exec[p].scans = 1
    /\ exec[p].out.type = "result"
    /\ exec[p].httpUrl = UrlOf(r)
    /\ exec[p].eventContentFile = r.eventContentFile

\* C13: getReport answers scanned: true for an input (URL, descriptor or
\* none) only if a pipeline run for exactly that URL and that descriptor
\* completed a scan; a scan of the same URL as plaintext or with another
\* descriptor does not create an entry under this input's key.
C13_KeysSeparateDescriptors ==
    \A r \in Requests :
        getReport(resultCache, r.domain, r.mediaId, r.eventContentFile, opts).scanned
            => \E p \in Calls : ScannedAs(p, r)

\* The URL has been scanned as plaintext and getReport for the same URL with
\* a descriptor has answered scanned: false.
C13_Witness ==
    /\ \E p \in Calls : ScannedAs(p, PlainRequest)
    /\ resultCache[getInputHash("d", "m1", NoFile, opts)] # NoOut
    /\ lastGet.called
    /\ lastGet.eventContentFile = EncFile
    /\ UrlOf(EncRequest) = UrlOf(PlainRequest)
    /\ ~lastGet.ret.scanned

\* baseUrl === undefined || tempDirectory === undefined || script === undefined
MissingOption(o) ==
    o.baseUrl = Undefined \/ o.tempDirectory = NoDir \/ o.script = Undefined

\* C14: when a required option is missing, generateReport and
\* scannedDownload fail with the configuration error before any I/O: no
\* workspace directory is created, no file is written, no fetch is started
\* and no scanner is run.
C14_ConfigErrorBeforeAnyIO ==
    MissingOption(opts) =>
        /\ dirs = {}
        /\ files = {}
        /\ \A p \in Calls : exec[p].fetches = 0 /\ exec[p].scans = 0
        /\ \A c \in Calls : pc[c] = "done" => result[c] = ConfigError

EmptyCache == [k \in AllKeys |-> NoOut]

\* C15: a cache entry is write-once: once a key has an entry, no step
\* changes the stored object (clean, info, exitCode, filePath, headers); the
\* entry goes away only when clearReportCache empties the cache.
C15_CacheEntriesWriteOnce ==
    [][\A k \in AllKeys :
          resultCache[k] # NoOut
              => (resultCache'[k] = resultCache[k] \/ resultCache' = EmptyCache)]_vars

\* The step in which the fetch of execution p ends without error.
FetchCompletes(p) ==
    /\ exec[p].state = "fetching"
    /\ exec'[p].state # "fetching"
    /\ exec'[p].fetchError = NoOut

\* if (eventContentFile && eventContentFile.key)
NeedsDecrypt(p) == exec[p].eventContentFile.present /\ exec[p].eventContentFile.key # ""

\* C16: after clearReportCache() getReport answers scanned: false for every
\* input, and as long as a key has no entry, a pipeline invocation for it
\* whose fetch ends decrypts (when the input has a decryption key) and runs
\* the scanner, however often the key was scanned before.
C16_ClearedKeysBehaveAsUnseen ==
    [][/\ ClearReportCache
          => \A r \in Requests :
                ~getReport(resultCache', r.domain, r.mediaId, r.eventContentFile, opts).scanned
       /\ \A p \in Calls :
            (FetchCompletes(p) /\ resultCache[exec[p].key] = NoOut)
                => /\ NeedsDecrypt(p) => exec'[p].decrypts = 1
                   /\ exec'[p].scans = 1 \/ exec'[p].decryptThrew]_vars

\* An encrypted input was scanned to a verdict, and a later invocation for
\* the same key has decrypted again and is in the scanner: the cache was
\* cleared in between.
C16_Witness ==
    \E p, c \in Calls :
        /\ p # c
        /\ exec[p].key = exec[c].key
        /\ NeedsDecrypt(p)
        /\ exec[p].state = "settled" /\ exec[p].scans = 1 /\ exec[p].out.type = "result"
        /\ exec[c].state = "scanning" /\ exec[c].decrypts = 1 /\ exec[c].scans = 1
        /\ resultCache[exec[c].key] = NoOut

\* a and b carry the same verdict of the scanner.
SameVerdict(a, b) ==
    a.type = b.type /\ a.clean = b.clean /\ a.info = b.info /\ a.exitCode = b.exitCode

\* The step in which executeCommand resolves for execution p.
ScanCompletes(p) == exec[p].state = "scanning" /\ exec'[p].state = "settled"

\* C17: an invocation whose key has a cache entry when its fetch ends has
\* fetched, but it neither decrypts nor runs the scanner nor writes the
\* cache, and it settles with the cached verdict; and the scanner completes
\* for a key only while the key has no entry, hence at most once per key as
\* long as the cache is not cleared.
C17_CacheHitOnlyReads ==
    [][\A p \in Calls :
          /\ (FetchCompletes(p) /\ resultCache[exec[p].key] # NoOut)
                => /\ exec'[p].fetches = 1
                   /\ exec'[p].decrypts = 0
                   /\ exec'[p].scans = 0
                   /\ exec'[p].state = "settled"
                   /\ SameVerdict(exec'[p].out, resultCache[exec[p].key])
                   /\ resultCache' = resultCache
          /\ ScanCompletes(p) => resultCache[exec[p].key] = NoOut]_vars

SendsFile(c) == IsDownload(c) /\ sent[c] = NoPath /\ sent'[c] # NoPath

\* C19: in the step in which a scannedDownload call hands filePath to
\* res.sendFile, the directory that contains the file exists and so does the
\* file, also when the call was coalesced onto the execution started by
\* another scannedDownload call and the path lies in that call's workspace.
C19_SentFileInLiveWorkspace ==
    [][\A c \in Calls :
          SendsFile(c)
              => /\ report'[c].clean
                 /\ sent'[c] = report'[c].filePath
                 /\ sent'[c].dir \in dirs' \cup {RootDir}
                 /\ sent'[c] \in files'
                 /\ (IsDownload(awaiting[c]) => sent'[c].dir = awaiting[c])]_vars

\* A scannedDownload call coalesced onto another scannedDownload call's
\* execution has sent a file that lies in the other call's workspace.
C19_Witness ==
    \E c, p \in Calls :
        /\ c # p
        /\ IsDownload(c) /\ IsDownload(p)
        /\ awaiting[c] = p
        /\ sent[c] # NoPath
        /\ sent[c].dir = p
        /\ p \in dirs /\ c \in dirs
        /\ pc[c] = "rimraf" /\ pc[p] = "rimraf"

\* C20: under fair scheduling, with every external step eventually
\* settling, every generateReport and scannedDownload call that is
\* outstanding eventually settles with a value or an error, and whenever no
\* call is outstanding the registry of in-flight promises is empty.
C20_CallsSettleAndRegistryEmpties ==
    /\ \A c \in Calls : Outstanding(c) ~> (pc[c] = "done" /\ result[c] # NoOut)
    /\ []((\A c \in Calls : ~Outstanding(c)) => \A k \in AllKeys : ongoing[k] = NoCall)

\* Every call has been made and has settled, one of them a coalesced
\* scannedDownload, and the registry is empty.
C20_Witness ==
    /\ \A c \in Calls : pc[c] = "done" /\ result[c] # NoOut
    /\ \E c \in Calls : IsDownload(c) /\ awaiting[c] # c /\ report[c].type = "result"
    /\ \A k \in AllKeys : ongoing[k] = NoCall

====
